---- MODULE Spec2Model ----
(***************************************************************************)
(* Extraction orchestrator of social_media_extractor.py: platform          *)
(* detection, the per-platform sliding-window rate limiter, the retrying   *)
(* wrapper safe_api_call and the batch loop process_links.                 *)
(*                                                                         *)
(* Representation.  A Python string is the sequence of its characters, so  *)
(* that lower() and the `in` substring test are computed, not assumed.     *)
(* A dict is a function from its keys; a missing key is a key outside the  *)
(* DOMAIN.  Python's None (and pandas' NaN, which the code treats alike)   *)
(* is the value None below.  Time is in whole seconds; durations that the  *)
(* code computes as fractions are kept in hundredths of a second and a     *)
(* sleep ends at the next whole second.  Time passes in the sleeps only: a *)
(* collaborator call takes no time of its own.                             *)
(***************************************************************************)
EXTENDS Integers, Sequences, FiniteSets, TLC

\* Longest batch handed to process_links.
MaxLinks == 2
\* Most departures from the plain run in one behaviour: collaborator calls
\* that do not succeed, and random draws that are not the smallest.
MaxDeviations == 3

\* Most rate_limit_delay calls of one sequential caller.
MaxCalls == 51

\* Most batches one extractor is given, one after the other.
MaxBatches == 2

\* Largest max_retries a caller of safe_api_call passes explicitly.
MaxRetriesArg == 1

None == <<"None">>

UPPERCASE == <<"A", "B", "C", "D", "E", "F", "G", "H", "I", "J", "K", "L", "M", "N", "O", "P", "Q", "R", "S", "T", "U", "V", "W", "X", "Y", "Z">>
LOWERCASE == <<"a", "b", "c", "d", "e", "f", "g", "h", "i", "j", "k", "l", "m", "n", "o", "p", "q", "r", "s", "t", "u", "v", "w", "x", "y", "z">>
DIGITS == <<"0", "1", "2", "3", "4", "5", "6", "7", "8", "9">>

\* Domain fragments tested by detect_platform (social_media_extractor.py 235-246).
\* "twitter.com"
FRAG_twitter == <<"t", "w", "i", "t", "t", "e", "r", ".", "c", "o", "m">>
\* "x.com"
FRAG_x == <<"x", ".", "c", "o", "m">>
\* "youtube.com"
FRAG_youtube == <<"y", "o", "u", "t", "u", "b", "e", ".", "c", "o", "m">>
\* "youtu.be"
FRAG_youtu_be == <<"y", "o", "u", "t", "u", ".", "b", "e">>
\* "tiktok.com"
FRAG_tiktok == <<"t", "i", "k", "t", "o", "k", ".", "c", "o", "m">>
\* "stockbit.com"
FRAG_stockbit == <<"s", "t", "o", "c", "k", "b", "i", "t", ".", "c", "o", "m">>
\* "instagram.com"
FRAG_instagram == <<"i", "n", "s", "t", "a", "g", "r", "a", "m", ".", "c", "o", "m">>
\* "linkedin.com"
FRAG_linkedin == <<"l", "i", "n", "k", "e", "d", "i", "n", ".", "c", "o", "m">>

\* Quota markers scanned by safe_api_call (lines 136 and 147).
\* "rate limit"
KW_rate_limit == <<"r", "a", "t", "e", " ", "l", "i", "m", "i", "t">>
\* "too many requests"
KW_too_many_requests == <<"t", "o", "o", " ", "m", "a", "n", "y", " ", "r", "e", "q", "u", "e", "s", "t", "s">>
\* "quota"
KW_quota == <<"q", "u", "o", "t", "a">>
\* "limit exceeded"
KW_limit_exceeded == <<"l", "i", "m", "i", "t", " ", "e", "x", "c", "e", "e", "d", "e", "d">>

\* Platform names: keys of request_timestamps and RATE_LIMIT_CONFIG, values of the platform field.
\* "x"
P_x == <<"x">>
\* "instagram"
P_instagram == <<"i", "n", "s", "t", "a", "g", "r", "a", "m">>
\* "youtube"
P_youtube == <<"y", "o", "u", "t", "u", "b", "e">>
\* "tiktok"
P_tiktok == <<"t", "i", "k", "t", "o", "k">>
\* "stockbit"
P_stockbit == <<"s", "t", "o", "c", "k", "b", "i", "t">>
\* "linkedin"
P_linkedin == <<"l", "i", "n", "k", "e", "d", "i", "n">>
\* "unknown"
P_unknown == <<"u", "n", "k", "n", "o", "w", "n">>
\* "default"
P_default == <<"d", "e", "f", "a", "u", "l", "t">>

\* Literal messages built by safe_api_call and process_links.
\* "Rate limit exceeded after "
STR_rate_limit_after == <<"R", "a", "t", "e", " ", "l", "i", "m", "i", "t", " ", "e", "x", "c", "e", "e", "d", "e", "d", " ", "a", "f", "t", "e", "r", " ">>
\* " retries"
STR_retries == <<" ", "r", "e", "t", "r", "i", "e", "s">>
\* "Max retries ("
STR_max_retries_open == <<"M", "a", "x", " ", "r", "e", "t", "r", "i", "e", "s", " ", "(">>
\* ") exceeded"
STR_exceeded_close == <<")", " ", "e", "x", "c", "e", "e", "d", "e", "d">>
\* "Unsupported platform"
STR_unsupported == <<"U", "n", "s", "u", "p", "p", "o", "r", "t", "e", "d", " ", "p", "l", "a", "t", "f", "o", "r", "m">>
\* "No valid links provided" (main.py 64)
STR_no_valid_links == <<"N", "o", " ", "v", "a", "l", "i", "d", " ", "l", "i", "n", "k", "s", " ", "p", "r", "o", "v", "i", "d", "e", "d">>
\* "No URL provided" (main.py 88)
STR_no_url == <<"N", "o", " ", "U", "R", "L", " ", "p", "r", "o", "v", "i", "d", "e", "d">>
\* "Internal server error: " (main.py 75, 119)
STR_internal_server_error == <<"I", "n", "t", "e", "r", "n", "a", "l", " ", "s", "e", "r", "v", "e", "r", " ", "e", "r", "r", "o", "r", ":", " ">>
\* "No links provided"
STR_no_links == <<"N", "o", " ", "l", "i", "n", "k", "s", " ", "p", "r", "o", "v", "i", "d", "e", "d">>

\* Input URLs of the explored batches.
\* "X.com/1"
URL_X == <<"X", ".", "c", "o", "m", "/", "1">>
\* "youtu.be/a"
URL_YT == <<"y", "o", "u", "t", "u", ".", "b", "e", "/", "a">>
\* "stockbit.com/p"
URL_SB == <<"s", "t", "o", "c", "k", "b", "i", "t", ".", "c", "o", "m", "/", "p">>
\* "instagram.com/p"
URL_IG == <<"i", "n", "s", "t", "a", "g", "r", "a", "m", ".", "c", "o", "m", "/", "p">>
\* "a.io/3"
URL_OTHER == <<"a", ".", "i", "o", "/", "3">>

\* Messages a fetch collaborator can surface: one carrying quota markers, one carrying none (line 340).
\* "Rate limit exceeded"
MSG_RATE_LIMIT == <<"R", "a", "t", "e", " ", "l", "i", "m", "i", "t", " ", "e", "x", "c", "e", "e", "d", "e", "d">>
\* "Video not found"
MSG_NOT_FOUND == <<"V", "i", "d", "e", "o", " ", "n", "o", "t", " ", "f", "o", "u", "n", "d">>

\* 'Error', the placeholder of extract_stockbit_data's except clause (lines 676-684)
STR_Error == <<"E", "r", "r", "o", "r">>

\* Sample field values of a successful fetch.
\* "Jan 01, 2024"
SAMPLE_date == <<"J", "a", "n", " ", "0", "1", ",", " ", "2", "0", "2", "4">>
\* "u"
SAMPLE_author == <<"u">>
\* "hi"
SAMPLE_content == <<"h", "i">>
\* "7"
SAMPLE_count == <<"7">>

-----------------------------------------------------------------------------
\* Python string operations.

\* str.lower() on one character
lower_char(c) == IF \E i \in 1..26 : UPPERCASE[i] = c THEN LOWERCASE[CHOOSE i \in 1..26 : UPPERCASE[i] = c] ELSE c

\* str.lower()
lower(s) == [i \in 1..Len(s) |-> lower_char(s[i])]

\* `sub in s` on strings
Contains(sub, s) == \E i \in 0..(Len(s) - Len(sub)) : SubSeq(s, i + 1, i + Len(sub)) = sub

RECURSIVE nat_str(_)
\* decimal digits of a natural number
nat_str(n) == IF n < 10 THEN <<DIGITS[n + 1]>> ELSE nat_str(n \div 10) \o <<DIGITS[(n % 10) + 1]>>

\* str(n) / f"{n}" for an int
str(n) == IF n < 0 THEN <<"-">> \o nat_str(-n) ELSE nat_str(n)

-----------------------------------------------------------------------------
\* Configuration.  delay_between_requests is in hundredths of a second.
RATE_LIMIT_CONFIG ==
    (P_x :> [requests_per_minute |-> 50, delay_between_requests |-> 120, batch_size |-> 25, max_retries |-> 2]) @@
    (P_instagram :> [requests_per_minute |-> 30, delay_between_requests |-> 250, batch_size |-> 15, max_retries |-> 3]) @@
    (P_youtube :> [requests_per_minute |-> 100, delay_between_requests |-> 50, batch_size |-> 50, max_retries |-> 2]) @@
    (P_tiktok :> [requests_per_minute |-> 40, delay_between_requests |-> 150, batch_size |-> 30, max_retries |-> 2]) @@
    (P_default :> [requests_per_minute |-> 60, delay_between_requests |-> 100, batch_size |-> 40, max_retries |-> 2])

\* RATE_LIMIT_CONFIG.get(platform, RATE_LIMIT_CONFIG['default'])
config(platform) == IF platform \in DOMAIN RATE_LIMIT_CONFIG THEN RATE_LIMIT_CONFIG[platform] ELSE RATE_LIMIT_CONFIG[P_default]

\* keys of self.request_timestamps
TIMESTAMP_KEYS == {P_x, P_instagram, P_youtube, P_tiktok, P_stockbit, P_linkedin}

\* keys of the processors table of process_links
processors == {P_x, P_youtube, P_tiktok, P_stockbit, P_instagram, P_linkedin}

standard_columns == <<"date", "url", "author", "content", "followers", "views", "likes", "comments", "saves", "shares", "reposts", "platform", "error">>

\* Values random.random() is drawn from, in hundredths: the ends of [0, 1).
random_random == {0, 99}

\* time.sleep(d) for d in hundredths of a second: the clock is read in whole
\* seconds and the sleep lasts at least d.
sleep_seconds(d) == (d + 99) \div 100

-----------------------------------------------------------------------------
\* Pure parts of the code.

\* variant of detect_platform that does not lower-case the url
detect_platform_case_sensitive(u) ==
    LET url_lower == u IN
    IF Contains(FRAG_twitter, url_lower) \/ Contains(FRAG_x, url_lower) THEN P_x
    ELSE IF Contains(FRAG_youtube, url_lower) \/ Contains(FRAG_youtu_be, url_lower) THEN P_youtube
    ELSE IF Contains(FRAG_tiktok, url_lower) THEN P_tiktok
    ELSE IF Contains(FRAG_stockbit, url_lower) THEN P_stockbit
    ELSE IF Contains(FRAG_instagram, url_lower) THEN P_instagram
    ELSE IF Contains(FRAG_linkedin, url_lower) THEN P_linkedin
    ELSE P_unknown

\* lines 233-248
detect_platform(u) ==
    LET url_lower == lower(u) IN
    IF Contains(FRAG_twitter, url_lower) \/ Contains(FRAG_x, url_lower) THEN P_x
    ELSE IF Contains(FRAG_youtube, url_lower) \/ Contains(FRAG_youtu_be, url_lower) THEN P_youtube
    ELSE IF Contains(FRAG_tiktok, url_lower) THEN P_tiktok
    ELSE IF Contains(FRAG_stockbit, url_lower) THEN P_stockbit
    ELSE IF Contains(FRAG_instagram, url_lower) THEN P_instagram
    ELSE IF Contains(FRAG_linkedin, url_lower) THEN P_linkedin
    ELSE P_unknown

\* variant of clean_timestamps that keeps a timestamp exactly 60 seconds old
clean_timestamps_inclusive(ts, t) == SelectSeq(ts, LAMBDA s : t - s <= 60)

\* [ts for ts in ... if now - ts < 60]
clean_timestamps(ts, t) == SelectSeq(ts, LAMBDA s : t - s < 60)

\* variant of window_sleep without the one-second margin
window_sleep_no_margin(ts, t) == 60 - (t - ts[1])

\* sleep_time = 60 - (now - request_timestamps[platform][0]) + 1
window_sleep(ts, t) == 60 - (t - ts[1]) + 1

\* config['delay_between_requests'] * (0.8 + 0.4 * random.random()), in hundredths
delay(p, U) == (config(p).delay_between_requests * (8000 + 40 * U)) \div 10000

\* variant of backoff_time that grows linearly with the attempt
backoff_time_linear(k, U) == (2 * k) * 100 + U * 2

\* (2 ** attempt) + random.random() * 2, in hundredths
backoff_time(k, U) == (2 ^ k) * 100 + U * 2

\* The messages a fetch collaborator surfaces.
MESSAGES == {MSG_RATE_LIMIT, MSG_NOT_FOUND}

\* any(keyword in error_msg.lower() for keyword in [...]), lines 136 and 147
has_quota_marker(s) ==
    LET t == lower(s) IN
    Contains(KW_rate_limit, t) \/ Contains(KW_too_many_requests, t) \/ Contains(KW_quota, t) \/ Contains(KW_limit_exceeded, t)

\* has_quota_marker tabulated over the collaborators' messages
QUOTA_TABLE == [m \in MESSAGES |-> has_quota_marker(m)]

\* variant of is_quota_error that takes every message for a quota error
is_quota_error_any_message(s) == s # None /\ s # <<>>

\* any(keyword in s.lower() for keyword in [...])
is_quota_error(s) == IF s \in MESSAGES THEN QUOTA_TABLE[s] ELSE has_quota_marker(s)

\* result.get('error')
get_error(result) == IF "error" \in DOMAIN result THEN result.error ELSE None

\* truth value of a string or None
truthy(v) == v # None /\ v # <<>>

\* the three-key record safe_api_call builds itself
failure_record(u, msg, p) == [url |-> u, error |-> msg, platform |-> p]

\* variant of safe_api_call_body that stops one retry early
safe_api_call_body_one_short(p, u, retries, k, outcome) ==
    IF outcome.kind = "return"
    THEN LET result == outcome.value IN
         IF truthy(get_error(result)) /\ is_quota_error(get_error(result)) /\ k < retries - 1
         THEN [kind |-> "continue"]
         ELSE [kind |-> "return", value |-> result]
    ELSE LET e == outcome.value.message IN
         IF is_quota_error(e)
         THEN IF k < retries - 1
              THEN [kind |-> "continue"]
              ELSE [kind |-> "return", value |-> failure_record(u, STR_rate_limit_after \o str(retries) \o STR_retries, p)]
         ELSE [kind |-> "return", value |-> failure_record(u, e, p)]

\* variant of safe_api_call_body whose except clause lets other errors through
safe_api_call_body_reraise(p, u, retries, k, outcome) ==
    IF outcome.kind = "return"
    THEN LET result == outcome.value IN
         IF truthy(get_error(result)) /\ is_quota_error(get_error(result)) /\ k < retries
         THEN [kind |-> "continue"]
         ELSE [kind |-> "return", value |-> result]
    ELSE LET e == outcome.value.message IN
         IF is_quota_error(e)
         THEN IF k < retries
              THEN [kind |-> "continue"]
              ELSE [kind |-> "return", value |-> failure_record(u, STR_rate_limit_after \o str(retries) \o STR_retries, p)]
         ELSE [kind |-> "raise", value |-> [message |-> e]]

\* variant of safe_api_call_body that completes a returned result with url and platform
safe_api_call_body_fills_in(p, u, retries, k, outcome) ==
    IF outcome.kind = "return"
    THEN LET result == outcome.value IN
         IF truthy(get_error(result)) /\ is_quota_error(get_error(result)) /\ k < retries
         THEN [kind |-> "continue"]
         ELSE [kind |-> "return",
               value |-> [c \in DOMAIN result \cup {"url", "platform"} |->
                             IF c \in DOMAIN result THEN result[c] ELSE IF c = "url" THEN u ELSE p]]
    ELSE LET e == outcome.value.message IN
         IF is_quota_error(e)
         THEN IF k < retries
              THEN [kind |-> "continue"]
              ELSE [kind |-> "return", value |-> failure_record(u, STR_rate_limit_after \o str(retries) \o STR_retries, p)]
         ELSE [kind |-> "return", value |-> failure_record(u, e, p)]

\* Lines 132-157: the rest of one pass through the loop body once
\* rate_limit_delay has returned and the collaborator has answered.
safe_api_call_body(p, u, retries, k, outcome) ==
    IF outcome.kind = "return"
    THEN LET result == outcome.value IN
         IF truthy(get_error(result)) /\ is_quota_error(get_error(result)) /\ k < retries
         THEN [kind |-> "continue"]
         ELSE [kind |-> "return", value |-> result]
    ELSE LET e == outcome.value.message IN
         IF is_quota_error(e)
         THEN IF k < retries
              THEN [kind |-> "continue"]
              ELSE [kind |-> "return", value |-> failure_record(u, STR_rate_limit_after \o str(retries) \o STR_retries, p)]
         ELSE [kind |-> "return", value |-> failure_record(u, e, p)]

\* line 159
max_retries_record(u, retries, p) == failure_record(u, STR_max_retries_open \o str(retries) \o STR_exceeded_close, p)

\* variant of unsupported_record that forgets the error
unsupported_record_no_error(u) ==
    [date |-> None, url |-> u, author |-> None, content |-> None, followers |-> None, views |-> None, likes |-> None,
     comments |-> None, saves |-> None, shares |-> None, reposts |-> None, platform |-> P_unknown, error |-> None]

\* lines 1033-1038
unsupported_record(u) ==
    [date |-> None, url |-> u, author |-> None, content |-> None, followers |-> None, views |-> None, likes |-> None,
     comments |-> None, saves |-> None, shares |-> None, reposts |-> None, platform |-> P_unknown, error |-> STR_unsupported]

-----------------------------------------------------------------------------
\* Fetch collaborators (fetch_x_metrics, fetch_youtube_metrics, ...): opaque.

\* the twelve-key record of a successful fetch
success_record(p, u) ==
    [date |-> SAMPLE_date, url |-> u, author |-> SAMPLE_author, content |-> SAMPLE_content, followers |-> SAMPLE_count,
     views |-> SAMPLE_count, likes |-> SAMPLE_count, comments |-> SAMPLE_count, saves |-> SAMPLE_count, shares |-> None,
     reposts |-> SAMPLE_count, platform |-> p]

\* lines 811-830 after extract_stockbit_data caught an exception (lines
\* 676-684): its placeholders, str(0) for the counts, and no error key
stockbit_error_record(u) ==
    [date |-> STR_Error, url |-> u, author |-> STR_Error, content |-> STR_Error, followers |-> str(0), views |-> None,
     likes |-> str(0), comments |-> str(0), saves |-> None, shares |-> None, reposts |-> None, platform |-> P_stockbit]

\* What one call api_function(url) can do: return the success record, return
\* a bare {"error": ...} (lines 269, 274, 334, 340), return the record of the
\* collaborator's own except clause (lines 306, 378), or raise.
\* failed tells whether the fetch failed, whatever the collaborator made of it.
fetch_outcomes(p, u) ==
    {[kind |-> "return", value |-> success_record(p, u), failed |-> FALSE],
     [kind |-> "return", value |-> [error |-> MSG_NOT_FOUND], failed |-> TRUE]}
    \cup {[kind |-> "return", value |-> failure_record(u, m, p), failed |-> TRUE] : m \in MESSAGES}
    \cup {[kind |-> "raise", value |-> [message |-> m], failed |-> TRUE] : m \in MESSAGES}
    \cup (IF p = P_stockbit THEN {[kind |-> "return", value |-> stockbit_error_record(u), failed |-> TRUE]} ELSE {})

-----------------------------------------------------------------------------
\* Result normalisation (lines 1046-1073).

Range(s) == {s[i] : i \in 1..Len(s)}

\* the keys of a record in the order its dict literal lists them (lines
\* 157, 291-304, 1034-1037)
keys(r) ==
    IF DOMAIN r = {"url", "error", "platform"} THEN <<"url", "error", "platform">>
    ELSE SelectSeq(standard_columns, LAMBDA c : c \in DOMAIN r)

RECURSIVE df_columns(_, _)
\* columns of pd.DataFrame(rs[1..n]): the keys of the records in order of first appearance
df_columns(rs, n) ==
    IF n = 0 THEN <<>>
    ELSE LET before == df_columns(rs, n - 1)
             seen == Range(before)
         IN IF DOMAIN rs[n] \subseteq seen THEN before
            ELSE before \o SelectSeq(keys(rs[n]), LAMBDA c : c \notin seen)

\* lines 1054-1056: a standard column the frame lacks is added at the end
with_missing(cols) == LET present == Range(cols) IN cols \o SelectSeq(standard_columns, LAMBDA c : c \notin present)

\* line 1059, df[standard_columns]: the listed columns in the listed order
reorder(cols) == LET present == Range(cols) IN SelectSeq(standard_columns, LAMBDA c : c \in present)

\* the keys of every dict of df.to_dict('records'), in order
result_columns(rs) == reorder(with_missing(df_columns(rs, Len(rs))))

\* variant of normalize that fills a missing cell with the empty string
normalize_blank_missing(r) == [c \in Range(standard_columns) |-> IF c \in DOMAIN r THEN r[c] ELSE <<>>]

\* one row of df[standard_columns]: a missing cell is null, other columns are dropped
normalize(r) == [c \in Range(standard_columns) |-> IF c \in DOMAIN r THEN r[c] ELSE None]

\* df.to_dict('records')
results_data(rs) == [i \in 1..Len(rs) |-> normalize(rs[i])]

\* number of rows of platform p; with errs, only those whose error is not null
count_rows(rows, p, errs) == Cardinality({i \in 1..Len(rows) : rows[i].platform = p /\ (errs => rows[i].error # None)})

\* variant of platform_stats whose error count is not restricted to the rows of the platform
platform_stats_errors_of_all_rows(rows) ==
    [p \in {rows[i].platform : i \in 1..Len(rows)} \ {None} |->
        [total |-> count_rows(rows, p, FALSE),
         success |-> count_rows(rows, p, FALSE) - Cardinality({i \in 1..Len(rows) : rows[i].error # None}),
         errors |-> Cardinality({i \in 1..Len(rows) : rows[i].error # None})]]

\* value_counts() drops null platforms; one entry per remaining platform
platform_stats(rows) ==
    [p \in {rows[i].platform : i \in 1..Len(rows)} \ {None} |->
        [total |-> count_rows(rows, p, FALSE), success |-> count_rows(rows, p, FALSE) - count_rows(rows, p, TRUE), errors |-> count_rows(rows, p, TRUE)]]

\* lines 1075-1082
batch_response(rs) ==
    [results |-> results_data(rs),
     summary |-> [total_processed |-> Len(rs), platform_stats |-> platform_stats(results_data(rs)), rate_limiting_applied |-> TRUE]]

-----------------------------------------------------------------------------
\* State.

VARIABLES
    request_timestamps, \* self.request_timestamps: platform -> list of admission times
    clock,              \* time.time()
    pc,                 \* control point of the one thread running process_links
    links,              \* argument of process_links
    link_iter,          \* number of links the for loop of line 1027 has taken
    url,                \* loop variable of line 1027 / argument of safe_api_call
    platform,           \* platform of the current url
    max_retries,        \* safe_api_call's max_retries
    attempt,            \* loop variable of line 129
    now,                \* local of rate_limit_delay
    sleep_time,         \* local of rate_limit_delay: the sleep of line 115, 0 if there was none
    wait_time,          \* local of safe_api_call: last backoff, in hundredths of a second
    all_results,        \* list of collected records
    processed_count,    \* progress counter
    progress,           \* history: the counts handed to print_progress_bar, in order
    response,           \* what process_links returned
    call_log,           \* history: per link, what each collaborator call did
    admissions,         \* history: per link, number of completed rate_limit_delay calls
    backoffs,           \* history: per link, the wait_time of each backoff sleep, in hundredths of a second
    deviations,         \* history: failed collaborator calls and late random draws so far
    data_links,         \* main.py, extract_engagement: the list data.get('links') of the request
    threads,            \* per server thread: where it is in rate_limit_delay, and its locals
    grants,             \* history: per platform, the times in the last 60 s at which rate_limit_delay returned
    earlier             \* history: request_timestamps as each batch that has returned left it

vars == <<request_timestamps, clock, pc, links, link_iter, url, platform, max_retries, attempt, now, sleep_time, wait_time,
          all_results, processed_count, progress, response, call_log, admissions, backoffs, deviations, data_links, threads, grants, earlier>>

URLS == {URL_X, URL_SB, URL_OTHER}

\* detect_platform tabulated over the links of the batches
PlatformTable == [u \in URLS \cup {URL_IG} |-> detect_platform(u)]

\* the server threads that can be inside rate_limit_delay at the same time
Threads == {1, 2}

RECURSIVE SeqsUpTo(_, _)
\* all sequences over S of length at most n
SeqsUpTo(S, n) == IF n = 0 THEN {<<>>} ELSE LET shorter == SeqsUpTo(S, n - 1) IN shorter \cup {Append(s, e) : s \in shorter, e \in S}

\* request_timestamps[x] after n admissions one second apart starting at time 0
\* (n immediate answers of an unconfigured collaborator, each after the
\* shortest jittered delay of 0.96 s, which ends at the next whole second).
earlier_traffic(n) == [i \in 1..n |-> i - 1]

\* the times at which those n calls returned: each one second after it began
earlier_grants(n) == [i \in 1..n |-> i]

\* The extractor is fresh, or earlier batches have left x's window one short
\* of its ceiling, or full.
earlier_admissions == {0, config(P_x).requests_per_minute - 1, config(P_x).requests_per_minute}

Init ==
    /\ \E n \in earlier_admissions :
          /\ request_timestamps = [p \in TIMESTAMP_KEYS |-> IF p = P_x THEN earlier_traffic(n) ELSE <<>>]
          /\ grants = [p \in TIMESTAMP_KEYS |-> IF p = P_x THEN earlier_grants(n) ELSE <<>>]
          /\ clock = n
    /\ pc = "idle"
    /\ links = <<>>
    /\ link_iter = 0
    /\ url = None
    /\ platform = None
    /\ max_retries = 0
    /\ attempt = 0
    /\ now = 0
    /\ sleep_time = 0
    /\ wait_time = 0
    /\ all_results = <<>>
    /\ processed_count = 0
    /\ progress = <<>>
    /\ response = [pending |-> TRUE]
    /\ call_log = <<>>
    /\ admissions = <<>>
    /\ backoffs = <<>>
    /\ deviations = 0
    /\ data_links = <<>>
    /\ earlier = <<>>
    /\ threads = [t \in Threads |-> [pc |-> "idle", platform |-> None, now |-> 0, kept |-> <<>>, sleep_time |-> 0, wake |-> 0]]

rl_vars == <<request_timestamps, clock, now, sleep_time>>
sac_vars == <<url, platform, max_retries, attempt, wait_time>>
out_vars == <<all_results, processed_count, progress, response>>
log_vars == <<call_log, admissions, backoffs>>
handler_vars == <<data_links, threads, grants, earlier>>

\* a return of rate_limit_delay at time t, added to the returns gs of the
\* 60 seconds that end at t
granted(gs, t) == Append(SelectSeq(gs, LAMBDA g : t - g < 60), t)

\* what call_log keeps of a collaborator call: whether it returned or raised,
\* the error message it surfaced, if any, whether the fetch failed, and the
\* keys of what it returned
log_entry(outcome) ==
    [kind |-> outcome.kind, error |-> IF outcome.kind = "raise" THEN outcome.value.message ELSE get_error(outcome.value),
     failed |-> outcome.failed, fields |-> DOMAIN outcome.value]

\* 1 for a random draw v out of S that is not the smallest, else 0
late(v, S) == IF \E w \in S : w < v THEN 1 ELSE 0

\* 1 for a collaborator call whose fetch failed, else 0
fault(outcome, p, u) == IF outcome.failed THEN 1 ELSE 0

\* charge n departures to the budget
deviate(n) == deviations + n <= MaxDeviations /\ deviations' = deviations + n

\* variant of collect that counts and reports only the records without an error
collect_counts_successes(result) ==
    /\ all_results' = Append(all_results, result)
    /\ processed_count' = processed_count + (IF truthy(get_error(result)) THEN 0 ELSE 1)
    /\ progress' = Append(progress, processed_count + (IF truthy(get_error(result)) THEN 0 ELSE 1))
    /\ pc' = "loop"

\* lines 1040-1042: collect the record and go back to the head of the for loop
collect(result) ==
    /\ all_results' = Append(all_results, result)
    /\ processed_count' = processed_count + 1
    /\ progress' = Append(progress, processed_count + 1)
    /\ pc' = "loop"

\* an exception leaving safe_api_call: process_links has no handler, so it
\* ends the batch without a response
propagate(e) ==
    /\ pc' = "aborted"
    /\ response' = [exception |-> e.message]
    /\ UNCHANGED <<all_results, processed_count, progress>>

\* variant of enter_attempt that calls rate_limit_delay before the first attempt only
enter_attempt_skip_delay(u, p, retries, k) ==
    IF k < retries + 1
    THEN pc' = (IF k = 0 THEN "rate_limit_delay" ELSE "fetch") /\ UNCHANGED <<all_results, processed_count, progress>>
    ELSE collect(max_retries_record(u, retries, p))

\* variant of enter_attempt whose loop is `for attempt in range(max_retries)`
enter_attempt_range_short(u, p, retries, k) ==
    IF k < retries
    THEN pc' = "rate_limit_delay" /\ UNCHANGED <<all_results, processed_count, progress>>
    ELSE collect(max_retries_record(u, retries, p))

\* head of `for attempt in range(max_retries + 1)` with the next value k:
\* enter the body, or fall out of the loop to line 159
enter_attempt(u, p, retries, k) ==
    IF k < retries + 1
    THEN pc' = "rate_limit_delay" /\ UNCHANGED <<all_results, processed_count, progress>>
    ELSE collect(max_retries_record(u, retries, p))

\* variant of process_links without the check of lines 988-989
process_links_unchecked(ls) ==
    /\ pc = "idle"
    /\ links' = ls
    /\ all_results' = <<>>
    /\ processed_count' = 0
    /\ progress' = <<0>>
    /\ link_iter' = 0
    /\ pc' = "loop"
    /\ UNCHANGED <<response, rl_vars, sac_vars, log_vars, deviations>>

\* variant of process_links that starts every batch with empty timestamp lists
process_links_fresh_limiter(ls) ==
    /\ pc = "idle"
    /\ links' = ls
    /\ request_timestamps' = [p \in TIMESTAMP_KEYS |-> <<>>]
    /\ IF ls = <<>>
       THEN /\ response' = [error |-> STR_no_links]
            /\ pc' = "done"
            /\ UNCHANGED <<all_results, processed_count, progress, link_iter>>
       ELSE /\ all_results' = <<>>
            /\ processed_count' = 0
            /\ progress' = <<0>>
            /\ link_iter' = 0
            /\ pc' = "loop"
            /\ UNCHANGED response
    /\ UNCHANGED <<clock, now, sleep_time, sac_vars, log_vars, deviations>>

\* lines 986-1024: the call process_links(ls) up to the for loop
process_links(ls) ==
    /\ pc = "idle"
    /\ links' = ls
    /\ IF ls = <<>>
       THEN /\ response' = [error |-> STR_no_links]
            /\ pc' = "done"
            /\ UNCHANGED <<all_results, processed_count, progress, link_iter>>
       ELSE /\ all_results' = <<>>
            /\ processed_count' = 0
            /\ progress' = <<0>>
            /\ link_iter' = 0
            /\ pc' = "loop"
            /\ UNCHANGED response
    /\ UNCHANGED <<rl_vars, sac_vars, log_vars, deviations>>

\* lines 993-998: the positions at which a platform appears for the first time
first_positions(ls) ==
    SelectSeq([i \in 1..Len(ls) |-> i], LAMBDA i : \A j \in 1..(i - 1) : PlatformTable[ls[j]] # PlatformTable[ls[i]])

\* lines 993-998: the keys of platform_groups, in the order the dict got them
group_keys(ls) == [k \in 1..Len(first_positions(ls)) |-> PlatformTable[ls[first_positions(ls)[k]]]]

\* lines 993-998: platform_groups, the links of each platform in input order
platform_groups(ls) == [p \in Range(group_keys(ls)) |-> SelectSeq(ls, LAMBDA l : PlatformTable[l] = p)]

RECURSIVE concat_groups(_, _)
\* the lists of platform_groups one after the other, for the keys ks
concat_groups(ls, ks) == IF ks = <<>> THEN <<>> ELSE platform_groups(ls)[Head(ks)] \o concat_groups(ls, Tail(ks))

\* lines 1001-1003: the links in the order a walk over platform_groups.items() takes them
grouped_order(ls) == concat_groups(ls, group_keys(ls))

\* variant of dispatch that takes the links group by group
dispatch_grouped ==
    /\ pc = "loop"
    /\ link_iter < Len(links)
    /\ link_iter' = link_iter + 1
    /\ LET u == grouped_order(links)[link_iter + 1]
           p == PlatformTable[u]
       IN /\ url' = u
          /\ platform' = p
          /\ call_log' = Append(call_log, <<>>)
          /\ admissions' = Append(admissions, 0)
          /\ backoffs' = Append(backoffs, <<>>)
          /\ IF p \in processors
             THEN /\ max_retries' = config(p).max_retries
                  /\ attempt' = 0
                  /\ enter_attempt(u, p, config(p).max_retries, 0)
             ELSE /\ collect(unsupported_record(u))
                  /\ UNCHANGED <<max_retries, attempt>>
    /\ UNCHANGED <<rl_vars, links, wait_time, response, deviations, handler_vars>>

\* lines 1027-1038 and 124-129: take the next link, classify it, and either
\* enter safe_api_call or build the record of an unsupported platform
dispatch ==
    /\ pc = "loop"
    /\ link_iter < Len(links)
    /\ link_iter' = link_iter + 1
    /\ LET u == links[link_iter + 1]
           p == PlatformTable[u]
       IN /\ url' = u
          /\ platform' = p
          /\ call_log' = Append(call_log, <<>>)
          /\ admissions' = Append(admissions, 0)
          /\ backoffs' = Append(backoffs, <<>>)
          /\ IF p \in processors
             THEN /\ max_retries' = config(p).max_retries
                  /\ attempt' = 0
                  /\ enter_attempt(u, p, config(p).max_retries, 0)
             ELSE /\ collect(unsupported_record(u))
                  /\ UNCHANGED <<max_retries, attempt>>
    /\ UNCHANGED <<rl_vars, links, wait_time, response, deviations, handler_vars>>

\* variant of rate_limit_delay that keeps one list of timestamps for all platforms
rate_limit_delay_shared ==
    /\ pc = "rate_limit_delay"
    /\ now' = clock
    /\ LET ts == clean_timestamps(request_timestamps[platform], clock)
           slept == IF Len(ts) >= config(platform).requests_per_minute THEN window_sleep(ts, clock) ELSE 0
       IN /\ sleep_time' = slept
          /\ request_timestamps' = [q \in TIMESTAMP_KEYS |-> Append(clean_timestamps(request_timestamps[q], clock), clock)]
          /\ \E U \in random_random :
                /\ deviate(late(U, random_random))
                /\ clock' = clock + slept + sleep_seconds(delay(platform, U))
                /\ grants' = [grants EXCEPT ![platform] = granted(@, clock + slept + sleep_seconds(delay(platform, U)))]
    /\ admissions' = [admissions EXCEPT ![link_iter] = @ + 1]
    /\ pc' = "fetch"
    /\ UNCHANGED <<links, link_iter, sac_vars, out_vars, call_log, backoffs, data_links, threads, earlier>>

\* lines 100-122, the call self.rate_limit_delay(platform) of line 131: read
\* the clock, evict old timestamps, sleep if the window is full, record now,
\* sleep the jittered delay, and return to line 132
rate_limit_delay ==
    /\ pc = "rate_limit_delay"
    /\ now' = clock
    /\ LET ts == clean_timestamps(request_timestamps[platform], clock)
           slept == IF Len(ts) >= config(platform).requests_per_minute THEN window_sleep(ts, clock) ELSE 0
       IN /\ sleep_time' = slept
          /\ request_timestamps' = [request_timestamps EXCEPT ![platform] = Append(ts, clock)]
          /\ \E U \in random_random :
                /\ deviate(late(U, random_random))
                /\ clock' = clock + slept + sleep_seconds(delay(platform, U))
                /\ grants' = [grants EXCEPT ![platform] = granted(@, clock + slept + sleep_seconds(delay(platform, U)))]
    /\ admissions' = [admissions EXCEPT ![link_iter] = @ + 1]
    /\ pc' = "fetch"
    /\ UNCHANGED <<links, link_iter, sac_vars, out_vars, call_log, backoffs, data_links, threads, earlier>>

\* lines 132-157: the collaborator call and what safe_api_call makes of it
fetch ==
    /\ pc = "fetch"
    /\ \E outcome \in fetch_outcomes(platform, url) :
          /\ deviate(fault(outcome, platform, url))
          /\ call_log' = [call_log EXCEPT ![link_iter] = Append(@, log_entry(outcome))]
          /\ LET step == safe_api_call_body(platform, url, max_retries, attempt, outcome) IN
                CASE step.kind = "continue" -> pc' = "backoff" /\ UNCHANGED out_vars
                  [] step.kind = "return" -> collect(step.value) /\ UNCHANGED response
                  [] step.kind = "raise" -> propagate(step.value)
    /\ UNCHANGED <<rl_vars, links, link_iter, sac_vars, admissions, backoffs, handler_vars>>

\* lines 138-141 / 149-152: the backoff sleep, then `continue`
backoff ==
    /\ pc = "backoff"
    /\ \E U \in random_random :
          /\ deviate(late(U, random_random))
          /\ wait_time' = backoff_time(attempt, U)
          /\ backoffs' = [backoffs EXCEPT ![link_iter] = Append(@, backoff_time(attempt, U))]
          /\ clock' = clock + sleep_seconds(backoff_time(attempt, U))
    /\ attempt' = attempt + 1
    /\ enter_attempt(url, platform, max_retries, attempt + 1)
    /\ UNCHANGED <<request_timestamps, now, sleep_time, links, link_iter, url, platform, max_retries, response, call_log, admissions, handler_vars>>

\* variant of finish that writes the normalised rows back into all_results
finish_in_place ==
    /\ pc = "loop"
    /\ link_iter = Len(links)
    /\ response' = batch_response(all_results)
    /\ all_results' = results_data(all_results)
    /\ pc' = "done"
    /\ UNCHANGED <<rl_vars, links, link_iter, sac_vars, processed_count, progress, log_vars, deviations, handler_vars>>

\* variant of finish that stays at the end of the loop and never returns
finish_never_returns ==
    /\ pc = "loop"
    /\ link_iter = Len(links)
    /\ UNCHANGED vars

\* lines 1044-1082: the loop is exhausted; normalise, summarise, return
finish ==
    /\ pc = "loop"
    /\ link_iter = Len(links)
    /\ response' = batch_response(all_results)
    /\ pc' = "done"
    /\ UNCHANGED <<rl_vars, links, link_iter, sac_vars, all_results, processed_count, progress, log_vars, deviations, handler_vars>>

Next ==
    \/ \E ls \in SeqsUpTo(URLS, MaxLinks) : process_links(ls) /\ UNCHANGED handler_vars
    \/ dispatch
    \/ rate_limit_delay
    \/ fetch
    \/ backoff
    \/ finish

Spec == Init /\ [][Next]_vars

-----------------------------------------------------------------------------
\* The Flask entry points of main.py on the module's extractor.

\* "  ": a blank string
BLANK == <<" ", " ">>

\* " a.io/3": a link with leading whitespace
URL_PADDED == <<" ">> \o URL_OTHER

RECURSIVE lstrip(_)
lstrip(v) == IF v # <<>> /\ Head(v) = " " THEN lstrip(Tail(v)) ELSE v

RECURSIVE rstrip(_)
rstrip(v) == IF v # <<>> /\ v[Len(v)] = " " THEN rstrip(SubSeq(v, 1, Len(v) - 1)) ELSE v

\* str.strip()
strip(v) == rstrip(lstrip(v))

\* isinstance(link, str): a JSON null among the links arrives as None
is_str(link) == link # None

RECURSIVE valid_links(_)
\* lines 58-61 of main.py: the entries that are non-blank strings, stripped
valid_links(ls) ==
    IF ls = <<>> THEN <<>>
    ELSE IF is_str(Head(ls)) /\ strip(Head(ls)) # <<>> THEN <<strip(Head(ls))>> \o valid_links(Tail(ls))
    ELSE valid_links(Tail(ls))

\* what a request can carry in data['links'] / data['url']
ENTRIES == URLS \cup {None, BLANK, URL_PADDED}

\* main.py 41-75: POST /extract with data = {"links": ls}
extract_engagement(ls) ==
    /\ pc = "idle"
    /\ data_links' = ls
    /\ UNCHANGED <<threads, grants, earlier>>
    /\ IF ls = <<>>
       THEN /\ response' = [error |-> STR_no_links, status |-> 400]
            /\ pc' = "done"
            /\ UNCHANGED <<links, link_iter, all_results, processed_count, progress, rl_vars, sac_vars, log_vars, deviations>>
       ELSE IF valid_links(ls) = <<>>
       THEN /\ response' = [error |-> STR_no_valid_links, status |-> 400]
            /\ pc' = "done"
            /\ UNCHANGED <<links, link_iter, all_results, processed_count, progress, rl_vars, sac_vars, log_vars, deviations>>
       ELSE process_links(valid_links(ls))

\* main.py 77-119: POST /extract-single with data = {"url": raw}; the fetch
\* collaborator is called directly
extract_single(raw) ==
    /\ pc = "idle"
    /\ pc' = "single_done"
    /\ IF strip(raw) = <<>>
       THEN /\ response' = [error |-> STR_no_url, status |-> 400]
            /\ UNCHANGED <<url, platform, log_vars, deviations>>
       ELSE /\ url' = strip(raw)
            /\ platform' = detect_platform(strip(raw))
            /\ admissions' = <<0>>
            /\ backoffs' = <<<<>>>>
            /\ IF detect_platform(strip(raw)) \in processors
               THEN \E outcome \in fetch_outcomes(detect_platform(strip(raw)), strip(raw)) :
                       /\ deviate(fault(outcome, detect_platform(strip(raw)), strip(raw)))
                       /\ call_log' = <<<<log_entry(outcome)>>>>
                       /\ response' = IF outcome.kind = "raise"
                                      THEN [error |-> STR_internal_server_error \o outcome.value.message, status |-> 500]
                                      ELSE [result |-> outcome.value]
               ELSE /\ response' = [result |-> unsupported_record(strip(raw))]
                    /\ call_log' = <<<<>>>>
                    /\ UNCHANGED deviations
    /\ UNCHANGED <<rl_vars, links, link_iter, max_retries, attempt, wait_time, all_results, processed_count, progress, handler_vars>>

\* main.py 10: the module creates its extractor when the server starts
InitApi == Init /\ clock = 0

NextApi ==
    \/ \E ls \in SeqsUpTo(ENTRIES, MaxLinks) : extract_engagement(ls)
    \/ \E raw \in ENTRIES \ {None} : extract_single(raw)
    \/ dispatch
    \/ rate_limit_delay
    \/ fetch
    \/ backoff
    \/ finish

SpecApi == InitApi /\ [][NextApi]_vars

-----------------------------------------------------------------------------
\* detect_platform on its own, over urls put together from known pieces.

\* "TikTok.COM"
MIXED_tiktok == <<"T", "i", "k", "T", "o", "k", ".", "C", "O", "M">>

\* what a url is put together from, each piece with the platform it belongs to
DETECT_PIECES ==
    {[text |-> FRAG_twitter, kind |-> P_x], [text |-> FRAG_x, kind |-> P_x], [text |-> URL_X, kind |-> P_x],
     [text |-> FRAG_youtube, kind |-> P_youtube], [text |-> FRAG_youtu_be, kind |-> P_youtube],
     [text |-> FRAG_tiktok, kind |-> P_tiktok], [text |-> MIXED_tiktok, kind |-> P_tiktok],
     [text |-> FRAG_stockbit, kind |-> P_stockbit], [text |-> FRAG_instagram, kind |-> P_instagram],
     [text |-> FRAG_linkedin, kind |-> P_linkedin], [text |-> URL_OTHER, kind |-> P_unknown], [text |-> <<>>, kind |-> P_unknown]}

\* two pieces with a slash between them
join(a, b) == a \o <<"/">> \o b

DETECT_INPUTS == {join(a.text, b.text) : a \in DETECT_PIECES, b \in DETECT_PIECES}

\* a call detect_platform(u)
classify(u) ==
    /\ pc = "idle"
    /\ url' = u
    /\ platform' = detect_platform(u)
    /\ pc' = "classified"
    /\ UNCHANGED <<rl_vars, links, link_iter, max_retries, attempt, wait_time, out_vars, log_vars, deviations, handler_vars>>

NextDetect == \E u \in DETECT_INPUTS : classify(u)

SpecDetect == InitApi /\ [][NextDetect]_vars

-----------------------------------------------------------------------------
\* Two requests inside rate_limit_delay at once. app.run serves each request
\* on a thread of its own and all of them use the one extractor of main.py;
\* rate_limit_delay takes no lock, so a thread switch can fall between any
\* two of its statements, and between building the filtered list of lines
\* 106-109 and storing it.

\* everything the threads leave alone
batch_vars == <<pc, links, link_iter, sac_vars, now, sleep_time, out_vars, log_vars, deviations, data_links, grants, earlier>>

\* the platforms the concurrent requests ask for
THREAD_PLATFORMS == {P_x, P_stockbit}

\* line 105: a request enters rate_limit_delay(p) and reads the clock
t_enter(t, p) ==
    /\ threads[t].pc = "idle"
    /\ threads' = [threads EXCEPT ![t].pc = "filter", ![t].platform = p, ![t].now = clock]
    /\ UNCHANGED <<request_timestamps, clock, batch_vars>>

\* lines 106-109, right-hand side: the list comprehension builds a new list
t_filter(t) ==
    /\ threads[t].pc = "filter"
    /\ threads' = [threads EXCEPT ![t].pc = "store",
                                  ![t].kept = clean_timestamps(request_timestamps[threads[t].platform], threads[t].now)]
    /\ UNCHANGED <<request_timestamps, clock, batch_vars>>

\* line 106, the assignment: the new list replaces the one in the dict
t_store(t) ==
    /\ threads[t].pc = "store"
    /\ request_timestamps' = [request_timestamps EXCEPT ![threads[t].platform] = threads[t].kept]
    /\ threads' = [threads EXCEPT ![t].pc = "check"]
    /\ UNCHANGED <<clock, batch_vars>>

\* lines 112-115: the ceiling test; time.sleep rejects a negative argument
t_check(t) ==
    /\ threads[t].pc = "check"
    /\ LET ts == request_timestamps[threads[t].platform] IN
          IF Len(ts) >= config(threads[t].platform).requests_per_minute
          THEN IF window_sleep(ts, threads[t].now) < 0
               THEN threads' = [threads EXCEPT ![t].pc = "raised", ![t].sleep_time = window_sleep(ts, threads[t].now)]
               ELSE threads' = [threads EXCEPT ![t].pc = "sleep", ![t].sleep_time = window_sleep(ts, threads[t].now),
                                               ![t].wake = clock + window_sleep(ts, threads[t].now)]
          ELSE threads' = [threads EXCEPT ![t].pc = "append"]
    /\ UNCHANGED <<request_timestamps, clock, batch_vars>>

\* line 115: time.sleep(sleep_time) is over
t_wake(t) ==
    /\ threads[t].pc = "sleep"
    /\ clock >= threads[t].wake
    /\ threads' = [threads EXCEPT ![t].pc = "append"]
    /\ UNCHANGED <<request_timestamps, clock, batch_vars>>

\* lines 118-122: record now in the list the dict holds, start the jittered delay
t_append(t) ==
    /\ threads[t].pc = "append"
    /\ request_timestamps' = [request_timestamps EXCEPT ![threads[t].platform] = Append(@, threads[t].now)]
    /\ \E U \in random_random :
          threads' = [threads EXCEPT ![t].pc = "jitter", ![t].wake = clock + sleep_seconds(delay(threads[t].platform, U))]
    /\ UNCHANGED <<clock, batch_vars>>

\* line 122: time.sleep(delay) is over and rate_limit_delay returns
t_return(t) ==
    /\ threads[t].pc = "jitter"
    /\ clock >= threads[t].wake
    /\ threads' = [threads EXCEPT ![t].pc = "returned"]
    /\ UNCHANGED <<request_timestamps, clock, batch_vars>>

\* thread t is inside time.sleep until after the present time
Asleep(t) == threads[t].pc \in {"sleep", "jitter"} /\ threads[t].wake > clock

\* thread t has a statement to execute
Runnable(t) == threads[t].pc \in {"filter", "store", "check", "append"} \/ (threads[t].pc \in {"sleep", "jitter"} /\ threads[t].wake <= clock)

\* Statements take no time: the clock moves when every request in progress
\* is asleep, to the time the first of them wakes.
time_passes ==
    /\ \E t \in Threads : Asleep(t)
    /\ \A t \in Threads : ~Runnable(t)
    /\ \E t \in Threads :
          /\ Asleep(t)
          /\ \A u \in Threads : Asleep(u) => threads[t].wake <= threads[u].wake
          /\ clock' = threads[t].wake
    /\ UNCHANGED <<request_timestamps, threads, batch_vars>>

NextConcurrent ==
    \/ \E t \in Threads : \E p \in THREAD_PLATFORMS : t_enter(t, p)
    \/ \E t \in Threads : t_filter(t)
    \/ \E t \in Threads : t_store(t)
    \/ \E t \in Threads : t_check(t)
    \/ \E t \in Threads : t_wake(t)
    \/ \E t \in Threads : t_append(t)
    \/ \E t \in Threads : t_return(t)
    \/ time_passes

SpecConcurrent == Init /\ [][NextConcurrent]_vars

-----------------------------------------------------------------------------
\* One caller that uses one platform sequentially: the calls
\* self.rate_limit_delay(platform) of line 131, one after the other, each
\* collaborator answering at once.

\* the platform of the sequential caller
LIMITER_PLATFORM == P_x

\* the rate_limit_delay calls the sequential caller has completed
calls_made == IF admissions = <<>> THEN 0 ELSE admissions[1]

\* line 131: the caller asks for its next admission
next_call ==
    /\ pc \in {"idle", "fetch"}
    /\ calls_made < MaxCalls
    /\ platform' = LIMITER_PLATFORM
    /\ link_iter' = 1
    /\ admissions' = IF admissions = <<>> THEN <<0>> ELSE admissions
    /\ pc' = "rate_limit_delay"
    /\ UNCHANGED <<rl_vars, links, url, max_retries, attempt, wait_time, out_vars, call_log, backoffs, deviations, handler_vars>>

NextLimiter ==
    \/ next_call
    \/ rate_limit_delay

\* the caller starts when earlier traffic has filled the platform's window
InitLimiter == Init /\ Len(request_timestamps[LIMITER_PLATFORM]) = config(LIMITER_PLATFORM).requests_per_minute

SpecLimiter == InitLimiter /\ [][NextLimiter]_vars

-----------------------------------------------------------------------------
\* One extractor given several batches, one after the other (main.py creates
\* the extractor once, line 10, and every request uses it, line 68).

\* the batches of this use: one link each
BATCHES == {<<u>> : u \in URLS}

\* the seconds that pass between the return of a batch and the next call
GAPS == {0, 60}

\* main.py 68-71: process_links has returned; after gap seconds the caller is
\* ready to hand the same extractor its next batch
next_request(gap) ==
    /\ pc = "done"
    /\ Len(earlier) + 1 < MaxBatches
    /\ earlier' = Append(earlier, request_timestamps)
    /\ clock' = clock + gap
    /\ pc' = "idle"
    /\ links' = <<>>
    /\ link_iter' = 0
    /\ url' = None
    /\ platform' = None
    /\ max_retries' = 0
    /\ attempt' = 0
    /\ wait_time' = 0
    /\ all_results' = <<>>
    /\ processed_count' = 0
    /\ progress' = <<>>
    /\ response' = [pending |-> TRUE]
    /\ call_log' = <<>>
    /\ admissions' = <<>>
    /\ backoffs' = <<>>
    /\ UNCHANGED <<request_timestamps, now, sleep_time, deviations, data_links, threads, grants>>

NextBatches ==
    \/ \E ls \in BATCHES : process_links(ls) /\ UNCHANGED handler_vars
    \/ dispatch
    \/ rate_limit_delay
    \/ fetch
    \/ backoff
    \/ finish
    \/ \E gap \in GAPS : next_request(gap)

SpecBatches == Init /\ [][NextBatches]_vars

-----------------------------------------------------------------------------
\* Batches that grouping by platform would reorder, on a fresh extractor.

\* the batches of three links whose platforms alternate
REGROUPED == {ls \in {<<a, b, c>> : a \in URLS, b \in URLS, c \in URLS} : grouped_order(ls) # ls}

NextOrder ==
    \/ \E ls \in REGROUPED : process_links(ls) /\ UNCHANGED handler_vars
    \/ dispatch
    \/ rate_limit_delay
    \/ fetch
    \/ backoff
    \/ finish

SpecOrder == InitApi /\ [][NextOrder]_vars

-----------------------------------------------------------------------------
\* A batch whose thread keeps running: every sleep ends and every
\* collaborator call returns or raises.

\* the links of these batches: the platform with three retries, and an unsupported one
FAIR_URLS == {URL_IG, URL_OTHER}

NextFair ==
    \/ \E ls \in SeqsUpTo(FAIR_URLS, MaxLinks) : process_links(ls) /\ UNCHANGED handler_vars
    \/ dispatch
    \/ rate_limit_delay
    \/ fetch
    \/ backoff
    \/ finish

\* the next statement of the thread that runs process_links
thread_step == dispatch \/ rate_limit_delay \/ fetch \/ backoff \/ finish

\* the thread is not held up for ever: it has one next statement at a time,
\* and that statement is executed in the end
Fairness == WF_vars(thread_step)

SpecFair == InitApi /\ [][NextFair]_vars /\ Fairness

-----------------------------------------------------------------------------
\* safe_api_call called on its own, with max_retries left out or given.

\* what a caller can pass as max_retries: nothing (None), or a number
RETRY_ARGS == {[given |-> FALSE]} \cup {[given |-> TRUE, value |-> n] : n \in (-2)..MaxRetriesArg}

\* lines 126-127: the default of max_retries
retries_of(p, arg) == IF arg.given THEN arg.value ELSE config(p).max_retries

\* lines 124-129: the call safe_api_call(p, api_function, u, max_retries) up
\* to the head of the for loop
safe_api_call(p, u, arg) ==
    /\ pc = "idle"
    /\ links' = <<u>>
    /\ link_iter' = 1
    /\ url' = u
    /\ platform' = p
    /\ max_retries' = retries_of(p, arg)
    /\ attempt' = 0
    /\ call_log' = <<<<>>>>
    /\ admissions' = <<0>>
    /\ backoffs' = <<<<>>>>
    /\ enter_attempt(u, p, retries_of(p, arg), 0)
    /\ UNCHANGED <<rl_vars, wait_time, response, deviations, handler_vars>>

NextCall ==
    \/ \E u \in URLS : \E arg \in RETRY_ARGS : PlatformTable[u] \in processors /\ safe_api_call(PlatformTable[u], u, arg)
    \/ rate_limit_delay
    \/ fetch
    \/ backoff

SpecCall == Init /\ [][NextCall]_vars

-----------------------------------------------------------------------------
\* Vocabulary of the properties.

\* link i has its record
Completed(i) == i <= Len(all_results)

\* the platform detect_platform gives link i
PlatformOf(i) == PlatformTable[links[i]]

\* a collaborator call that failed with the quota-marker message, returned or raised
QuotaFailure(o) == o.error = MSG_RATE_LIMIT

\* a collaborator call that failed with the message carrying no quota marker
OtherFailure(o) == o.error = MSG_NOT_FOUND

\* a collaborator call that returned a record without an error
Succeeded(o) == o.kind = "return" /\ o.error = None /\ ~o.failed

\* the batch has run to its end and process_links has returned its results
BatchDone == pc = "done" /\ links # <<>>

-----------------------------------------------------------------------------
\* C1: when process_links returns for a non-empty batch, the results have
\* one record per link and record i carries the url of link i, whatever the
\* collaborators did.
C1_OneRecordPerLinkWithItsUrl ==
    BatchDone =>
        /\ Len(response.results) = Len(links)
        /\ \A i \in 1..Len(links) : response.results[i].url = links[i]

\* C2: a link whose collaborator fails with a quota error on its first
\* max_retries calls and succeeds on the next one ends with exactly
\* max_retries + 1 calls and with that successful record: safe_api_call
\* never stops while only quota errors were seen and retries remain, and it
\* stops at the success.
C2_RetriesUntilSuccess ==
    \A i \in 1..Len(all_results) :
        LET log == call_log[i]
            n == config(PlatformOf(i)).max_retries
        IN PlatformOf(i) \in processors =>
              /\ (\A k \in 1..Len(log) : QuotaFailure(log[k])) => Len(log) > n
              /\ (Len(log) > n /\ (\A k \in 1..n : QuotaFailure(log[k])) /\ Succeeded(log[n + 1])) =>
                    (Len(log) = n + 1 /\ all_results[i] = success_record(PlatformOf(i), links[i]))

C2_Witness ==
    \E i \in 1..Len(all_results) :
        LET log == call_log[i]
            n == config(PlatformOf(i)).max_retries
        IN /\ n >= 2
           /\ Len(log) = n + 1
           /\ \A k \in 1..n : QuotaFailure(log[k])
           /\ Succeeded(log[n + 1])
           /\ all_results[i] = success_record(PlatformOf(i), links[i])

\* C3: a collaborator call that fails with an error carrying no quota marker,
\* returned or raised, at any attempt, is the last call for its link, and the
\* link's record is there at once and carries that error.
C3_OtherErrorsEndTheCall ==
    \A i \in 1..Len(call_log) : \A k \in 1..Len(call_log[i]) :
        OtherFailure(call_log[i][k]) =>
            /\ k = Len(call_log[i])
            /\ Completed(i)
            /\ all_results[i].error = MSG_NOT_FOUND

C3_Witness ==
    \E i \in 1..Len(all_results) :
        /\ Len(call_log[i]) = 2
        /\ QuotaFailure(call_log[i][1])
        /\ OtherFailure(call_log[i][2])
        /\ call_log[i][2].kind = "raise"
        /\ all_results[i].error = MSG_NOT_FOUND

\* C4: a link all of whose max_retries + 1 calls failed with a quota error,
\* returned or raised, has the record error 'Rate limit exceeded after N
\* retries' with N = max_retries.
C4_ExhaustionMessage ==
    \A i \in 1..Len(all_results) :
        LET log == call_log[i]
            n == config(PlatformOf(i)).max_retries
        IN (PlatformOf(i) \in processors /\ Len(log) = n + 1 /\ \A k \in 1..Len(log) : QuotaFailure(log[k])) =>
              all_results[i].error = STR_rate_limit_after \o str(n) \o STR_retries

\* C5: at every collaborator call exactly one rate_limit_delay for the same
\* platform has completed since the previous call of that link, and
\* otherwise a link has as many admissions as collaborator calls.
C5_OneAdmissionPerAttempt ==
    /\ \A i \in 1..Len(call_log) :
          admissions[i] = Len(call_log[i]) + (IF pc = "fetch" /\ i = link_iter THEN 1 ELSE 0)
    /\ pc = "fetch" =>
          /\ platform = PlatformTable[url]
          /\ request_timestamps[platform] # <<>>
          /\ request_timestamps[platform][Len(request_timestamps[platform])] = now

C5_Witness ==
    /\ pc = "fetch"
    /\ attempt = 2
    /\ Len(call_log[link_iter]) = 2
    /\ admissions[link_iter] = 3

\* C6: when the window of a platform already holds as many admissions as its
\* ceiling, the next rate_limit_delay sleeps 60 - age(oldest) + 1 seconds
\* before it records the admission, and when it returns the oldest of them is
\* more than 60 seconds old.
C6_FullWindowWaits ==
    (pc = "fetch" /\ Len(request_timestamps[platform]) > config(platform).requests_per_minute) =>
        /\ sleep_time = 60 - (now - request_timestamps[platform][1]) + 1
        /\ clock >= now + sleep_time
        /\ clock - request_timestamps[platform][1] > 60

C6_Witness ==
    /\ pc = "fetch"
    /\ Len(request_timestamps[platform]) = config(platform).requests_per_minute + 1
    /\ sleep_time > 1

\* C7: a link classified 'unknown' gets no collaborator call and no
\* admission, taking it leaves request_timestamps as it was, and its record
\* has platform 'unknown', error 'Unsupported platform', its url, and every
\* other field null, in all_results and in the returned results.
IsUnsupportedRecord(r, u) ==
    /\ r.platform = P_unknown
    /\ r.error = STR_unsupported
    /\ r.url = u
    /\ \A c \in DOMAIN r \ {"platform", "error", "url"} : r[c] = None

C7_UnknownState ==
    \A i \in 1..Len(call_log) :
        PlatformOf(i) = P_unknown =>
            /\ call_log[i] = <<>>
            /\ admissions[i] = 0
            /\ Completed(i)
            /\ DOMAIN all_results[i] = Range(standard_columns)
            /\ IsUnsupportedRecord(all_results[i], links[i])
            /\ pc = "done" => IsUnsupportedRecord(response.results[i], links[i])

C7_UnknownStep ==
    (pc = "loop" /\ link_iter < Len(links) /\ PlatformOf(link_iter + 1) = P_unknown) =>
        (request_timestamps' = request_timestamps /\ clock' = clock)

C7_UnknownBypassesFetch == []C7_UnknownState /\ [][C7_UnknownStep]_vars

C7_Witness ==
    /\ pc = "done"
    /\ \E i \in 1..Len(links) : PlatformOf(i) = P_unknown /\ response.results[i].error = STR_unsupported
    /\ \E j \in 1..Len(links) : call_log[j] # <<>>

\* C8: process_links on an empty list returns the error outcome at once:
\* nothing is classified, admitted or fetched and request_timestamps is
\* left unchanged.
C8_EmptyState ==
    (pc # "idle" /\ links = <<>>) =>
        /\ pc = "done"
        /\ response = [error |-> STR_no_links]
        /\ all_results = <<>>
        /\ call_log = <<>>
        /\ admissions = <<>>
        /\ link_iter = 0

C8_EmptyStep ==
    (pc = "idle" /\ pc' # "idle" /\ links' = <<>>) =>
        (request_timestamps' = request_timestamps /\ clock' = clock /\ pc' = "done")

C8_EmptyBatchRejected == []C8_EmptyState /\ [][C8_EmptyStep]_vars

C8_Witness ==
    /\ pc = "done"
    /\ links = <<>>
    /\ "error" \in DOMAIN response
    /\ request_timestamps[P_x] # <<>>

\* C9: no collaborator failure ends the batch: process_links never stops
\* on an exception, and when it returns every link, also each one after a
\* failed link, was dispatched (a supported one had at least one collaborator
\* call) and has its record.
C9_FailureIsolation ==
    /\ pc # "aborted"
    /\ BatchDone =>
          /\ Len(response.results) = Len(links)
          /\ Len(all_results) = Len(links)
          /\ Len(call_log) = Len(links)
          /\ \A i \in 1..Len(links) : PlatformOf(i) \in processors => Len(call_log[i]) >= 1

C9_Witness ==
    /\ BatchDone
    /\ Len(links) >= 2
    /\ call_log[1] # <<>>
    /\ call_log[1][Len(call_log[1])].kind = "raise"
    /\ call_log[2] # <<>>
    /\ Succeeded(call_log[2][1])
    /\ response.results[2].error = None

\* C10: every returned record has a non-null platform, the one
\* detect_platform assigns to its link.
C10_PlatformMatchesDetection ==
    BatchDone => \A i \in 1..Len(links) :
        /\ response.results[i].platform # None
        /\ response.results[i].platform = PlatformOf(i)

\* C11: for every platform value (a non-null platform) among the returned
\* records, the summary has an entry whose total is the number of records of
\* that platform, whose errors is the number of those with a non-null error,
\* and whose success is total - errors.
C11_SummaryCountsPerPlatform ==
    BatchDone =>
        \A i \in 1..Len(response.results) :
            LET p == response.results[i].platform
                of_p == {j \in 1..Len(response.results) : response.results[j].platform = p}
                failed == {j \in of_p : response.results[j].error # None}
            IN p # None =>
                  /\ p \in DOMAIN response.summary.platform_stats
                  /\ response.summary.platform_stats[p].total = Cardinality(of_p)
                  /\ response.summary.platform_stats[p].errors = Cardinality(failed)
                  /\ response.summary.platform_stats[p].success = Cardinality(of_p) - Cardinality(failed)

C11_Witness ==
    /\ BatchDone
    /\ \E p \in DOMAIN response.summary.platform_stats : \E q \in DOMAIN response.summary.platform_stats :
          /\ p # q
          /\ response.summary.platform_stats[p].errors = 1
          /\ response.summary.platform_stats[q].success = 1

\* C12: extract_single takes a URL of a supported platform through the path
\* of the batch: an admission is recorded before each collaborator call, a
\* quota error is retried while retries remain, and what comes back is a
\* record, as safe_api_call never lets an exception through.
C12_SingleFollowsBatchPath ==
    (pc = "single_done" /\ platform \in processors) =>
        /\ admissions[1] = Len(call_log[1])
        /\ request_timestamps[platform] # <<>>
        /\ QuotaFailure(call_log[1][Len(call_log[1])]) => Len(call_log[1]) = config(platform).max_retries + 1
        /\ "result" \in DOMAIN response

\* thread t has appended its timestamp
Admitted(t) == threads[t].pc \in {"jitter", "returned"}

\* number of entries of ts equal to v
Occurrences(ts, v) == Cardinality({k \in 1..Len(ts) : ts[k] = v})

\* C13: two requests inside rate_limit_delay for the same platform behave as
\* if one ran after the other: the timestamp of each admitted request is in
\* the list, once per request, as long as it is less than 60 seconds older
\* than any clock reading taken since, and two requests admitted without
\* waiting leave no more than the ceiling in the list.
C13_AdmissionsSerialized ==
    \A t \in Threads : \A u \in Threads \ {t} :
        (Admitted(t) /\ Admitted(u) /\ threads[t].platform = threads[u].platform
            /\ threads[t].now - threads[u].now < 60 /\ threads[u].now - threads[t].now < 60) =>
            LET ts == request_timestamps[threads[t].platform] IN
            /\ Occurrences(ts, threads[t].now) >= Cardinality({v \in Threads : threads[v].now = threads[t].now})
            /\ (threads[t].sleep_time = 0 /\ threads[u].sleep_time = 0) =>
                  Len(ts) <= config(threads[t].platform).requests_per_minute

\* the batch thread is at a suspension point: the admission wait and jittered
\* delay of rate_limit_delay, or the backoff sleep of safe_api_call
Suspended == pc \in {"rate_limit_delay", "backoff"}

\* C14: while the current link is suspended and a link of another platform
\* (a supported one) is still waiting in the batch, the batch can take that
\* link: the loop of process_links is able to dispatch.
C14_OtherPlatformsProgress ==
    (Suspended /\ \E j \in (link_iter + 1)..Len(links) : PlatformOf(j) \in processors \ {platform}) => ENABLED dispatch

\* the order in which the platforms are tried
KIND_ORDER == <<P_x, P_youtube, P_tiktok, P_stockbit, P_instagram, P_linkedin>>

\* the earliest platform of KIND_ORDER among kinds, 'unknown' if there is none
first_kind(kinds) ==
    IF \E k \in 1..Len(KIND_ORDER) : KIND_ORDER[k] \in kinds
    THEN KIND_ORDER[CHOOSE k \in 1..Len(KIND_ORDER) : KIND_ORDER[k] \in kinds /\ \A j \in 1..(k - 1) : KIND_ORDER[j] \notin kinds]
    ELSE P_unknown

\* C15: detect_platform answers for every url, with one of the six platforms
\* or 'unknown': the earliest platform, in the order x, youtube, tiktok,
\* stockbit, instagram, linkedin, one of whose domain fragments occurs in
\* the url whatever its letter case, and 'unknown' when none occurs.
C15_DetectMatchesReference ==
    pc = "classified" =>
        /\ platform \in Range(KIND_ORDER) \cup {P_unknown}
        /\ \A a \in DETECT_PIECES : \A b \in DETECT_PIECES :
              url = join(a.text, b.text) => platform = first_kind({a.kind, b.kind})

C15_Witness ==
    /\ pc = "classified"
    /\ url = join(FRAG_instagram, URL_X)
    /\ platform = P_x

\* the thirteen field names of a returned record
CANONICAL_FIELDS ==
    <<"date", "url", "author", "content", "followers", "views", "likes", "comments", "saves", "shares", "reposts", "platform", "error">>

CANONICAL_FIELD_SET == Range(CANONICAL_FIELDS)

\* C16: every returned record has exactly the thirteen fields date, url,
\* author, content, followers, views, likes, comments, saves, shares,
\* reposts, platform, error, in that order; a field the collected record
\* supplied keeps its value, one it did not supply is null, and no other
\* field is there.
C16_CanonicalFields ==
    BatchDone =>
        /\ result_columns(all_results) = CANONICAL_FIELDS
        /\ \A i \in 1..Len(response.results) :
              /\ DOMAIN response.results[i] = CANONICAL_FIELD_SET
              /\ \A c \in CANONICAL_FIELD_SET :
                    response.results[i][c] = (IF c \in DOMAIN all_results[i] THEN all_results[i][c] ELSE None)

C16_Witness ==
    /\ BatchDone
    /\ Len(all_results) = 2
    /\ DOMAIN all_results[1] = {"error"}
    /\ response.results[1].url = None
    /\ "error" \notin DOMAIN all_results[2]
    /\ response.results[2].error = None

\* an entry of the request that is not a string, or is empty or all blanks
Malformed(e) == e = None \/ \A k \in 1..Len(e) : e[k] = " "

\* C17: a request to /extract one of whose links is malformed is rejected
\* before anything is fetched: process_links gets no batch, no link is
\* admitted or fetched, and the answer is an error, not a result set.
C17_MalformedBatchRejected ==
    (\E k \in 1..Len(data_links) : Malformed(data_links[k])) =>
        /\ links = <<>>
        /\ call_log = <<>>
        /\ \A p \in TIMESTAMP_KEYS : request_timestamps[p] = <<>>
        /\ pc = "done" => ("error" \in DOMAIN response /\ "results" \notin DOMAIN response)

\* C18: the summary is a function of the records alone: computed again from
\* the collected records, or from the returned ones, it has the same
\* platform_stats and total_processed as the returned summary; and computing
\* it leaves the collected records and request_timestamps as they were.
C18_SummaryState ==
    BatchDone =>
        /\ batch_response(all_results).summary = response.summary
        /\ batch_response(response.results) = response

C18_SummaryStep ==
    (pc = "loop" /\ pc' = "done") =>
        (all_results' = all_results /\ request_timestamps' = request_timestamps /\ clock' = clock)

C19_FailedFetchCountedAsError ==
    BatchDone =>
        \A i \in 1..Len(links) :
            (call_log[i] # <<>> /\ call_log[i][Len(call_log[i])].failed) =>
                /\ response.results[i].error # None
                /\ response.results[i].platform \in DOMAIN response.summary.platform_stats

\* C20: in every 60 seconds of real time at most as many rate_limit_delay
\* calls for one platform return as the platform's ceiling allows: the
\* returns of the 60 seconds that end at the last return are no more than
\* requests_per_minute.
C20_WindowCeiling == \A p \in TIMESTAMP_KEYS : Len(grants[p]) <= config(p).requests_per_minute

\* C21: the backoff waits of a link follow its failed calls one for one: the
\* k-th wait (k from 1) comes after the k-th call, which failed with a quota
\* error at attempt index k - 1 < max_retries, and lasts at least 2^(k-1)
\* and less than 2^(k-1) + 2 seconds; nothing waits after the last call of a
\* completed link, so n calls go with exactly n - 1 waits.
C21_BackoffSchedule ==
    \A i \in 1..Len(call_log) :
        LET log == call_log[i]
            waits == backoffs[i]
            n == config(PlatformOf(i)).max_retries
        IN /\ Len(waits) <= Len(log)
           /\ (Completed(i) /\ log # <<>>) => Len(waits) = Len(log) - 1
           /\ (i = link_iter /\ pc = "backoff") => Len(waits) = Len(log) - 1
           /\ (i = link_iter /\ pc \in {"rate_limit_delay", "fetch"}) => Len(waits) = Len(log)
           /\ \A k \in 1..Len(waits) :
                 /\ QuotaFailure(log[k])
                 /\ k - 1 < n
                 /\ waits[k] >= (2 ^ (k - 1)) * 100
                 /\ waits[k] < (2 ^ (k - 1)) * 100 + 200

C21_Witness ==
    \E i \in 1..Len(all_results) :
        /\ Len(call_log[i]) = 3
        /\ Len(backoffs[i]) = 2
        /\ backoffs[i][1] = 100
        /\ backoffs[i][2] > 200
        /\ Succeeded(call_log[i][3])

\* the call of safe_api_call has returned to its caller
CallReturned == pc = "loop" /\ Len(all_results) = 1

\* C22: a call of safe_api_call returns the record 'Max retries (N)
\* exceeded' exactly when max_retries is negative; it has then asked for no
\* admission, made no collaborator call and slept in no backoff, and with
\* max_retries >= 0 at least one collaborator call was made and the record
\* comes from the last pass through the loop.
C22_FallbackOnlyWithoutAttempts ==
    CallReturned =>
        /\ (all_results[1] = max_retries_record(url, max_retries, platform)) <=> (max_retries < 0)
        /\ max_retries < 0 => (call_log[1] = <<>> /\ admissions[1] = 0 /\ backoffs[1] = <<>> /\ attempt = 0)
        /\ max_retries >= 0 => (Len(call_log[1]) >= 1 /\ Len(call_log[1]) <= max_retries + 1)

C22_Witness ==
    /\ CallReturned
    /\ max_retries = -1
    /\ all_results[1].error = STR_max_retries_open \o <<"-", "1">> \o STR_exceeded_close
    /\ admissions = <<0>>

\* C23: a step changes the timestamp list of a platform q only if it is a
\* completed rate_limit_delay call for q itself: the lists of all other
\* platforms stay as they were, and no other step of the batch (starting it,
\* dispatching, fetching, backing off, summarising) touches any list.
C23_TimestampStep ==
    \A q \in TIMESTAMP_KEYS :
        request_timestamps'[q] # request_timestamps[q] =>
            /\ pc = "rate_limit_delay"
            /\ pc' = "fetch"
            /\ platform = q
            /\ admissions'[link_iter] = admissions[link_iter] + 1

C23_TimestampsPerPlatform == [][C23_TimestampStep]_vars

C23_Witness ==
    /\ pc = "fetch"
    /\ link_iter = 2
    /\ platform = P_stockbit
    /\ request_timestamps[P_stockbit] = <<now>>
    /\ Len(request_timestamps[P_x]) > config(P_x).requests_per_minute
    /\ Len(all_results) = 1

\* C24: what earlier batches recorded is still there in a later batch on the
\* same extractor: a timestamp that an earlier batch left in the list of a
\* platform stays in it until an admission for that platform finds it 60
\* seconds old or older, and the ones younger than that count against the
\* ceiling: when they fill the window, the admission waits.
C24_AdmissionsOutliveTheBatch ==
    \A b \in 1..Len(earlier) : \A p \in TIMESTAMP_KEYS :
        LET left == earlier[b][p]
            ts == request_timestamps[p]
            kept == Range(ts)
        IN /\ \A k \in 1..Len(left) :
                 \/ left[k] \in kept
                 \/ ts # <<>> /\ ts[Len(ts)] - left[k] >= 60
           /\ (pc = "fetch" /\ p = platform /\ b = Len(earlier)
                 /\ Cardinality({k \in 1..Len(left) : now - left[k] < 60}) >= config(p).requests_per_minute) =>
                 sleep_time > 0

C24_Witness ==
    /\ Len(earlier) = 1
    /\ pc = "fetch"
    /\ platform = P_x
    /\ Len(earlier[1][P_x]) = config(P_x).requests_per_minute
    /\ earlier[1][P_x][config(P_x).requests_per_minute] = config(P_x).requests_per_minute - 1
    /\ \E j \in 1..Len(request_timestamps[P_x]) : request_timestamps[P_x][j] = config(P_x).requests_per_minute - 1
    /\ sleep_time > 0

\* C25: the links are taken in input order, whatever their platforms: at
\* every moment the links dispatched so far are the first link_iter of the
\* batch, all but the last of them have their record, and a step that adds a
\* collaborator call, an admission or a log to link i is a step on the link
\* dispatched last, taken when the records of all links before i are there
\* and while no link after i has been dispatched.
C25_OrderState ==
    (links # <<>> /\ pc # "idle") =>
        /\ Len(call_log) = link_iter
        /\ Len(admissions) = link_iter
        /\ link_iter <= Len(links)
        /\ Len(all_results) = (IF pc \in {"rate_limit_delay", "fetch", "backoff"} THEN link_iter - 1 ELSE link_iter)
        /\ pc \in {"rate_limit_delay", "fetch", "backoff"} => (url = links[link_iter] /\ platform = PlatformOf(link_iter))

C25_OrderStep ==
    \A i \in 1..Len(call_log') :
        (i > Len(call_log) \/ call_log'[i] # call_log[i] \/ admissions'[i] # admissions[i]) =>
            /\ i = link_iter'
            /\ i = Len(call_log')
            /\ Len(all_results) = i - 1
            /\ url' = links'[i]

C25_InputOrderDispatch == []C25_OrderState /\ [][C25_OrderStep]_vars

C25_Witness ==
    /\ BatchDone
    /\ grouped_order(links) # links
    /\ Len(call_log[1]) = 2
    /\ \A i \in 1..Len(links) : call_log[i] # <<>>
    /\ response.results[3].url = links[3]

RECURSIVE sum_of_totals(_, _)
\* the sum of stats[p].total over the platforms ps
sum_of_totals(stats, ps) ==
    IF ps = {} THEN 0
    ELSE LET p == CHOOSE q \in ps : TRUE IN stats[p].total + sum_of_totals(stats, ps \ {p})

\* C26: in every returned batch the totals of platform_stats add up to
\* total_processed, which is the number of links, and every platform's entry
\* has success + errors = total with success >= 0: each returned record is
\* counted under exactly one platform.
C26_SummaryTotalsConsistent ==
    BatchDone =>
        LET stats == response.summary.platform_stats IN
        /\ response.summary.total_processed = Len(links)
        /\ sum_of_totals(stats, DOMAIN stats) = response.summary.total_processed
        /\ \A p \in DOMAIN stats : stats[p].success + stats[p].errors = stats[p].total /\ stats[p].success >= 0

\* ts is in non-decreasing order
NonDecreasing(ts) == \A k \in 1..(Len(ts) - 1) : ts[k] <= ts[k + 1]

\* C27: used by one caller at a time, the timestamp list of every platform
\* is in non-decreasing order and holds at most ceiling + 1 entries; and a
\* completed rate_limit_delay call has dropped from the front of its
\* platform's list exactly the entries that were 60 or more seconds old when
\* it read the clock, kept all the others as they were, and added that one
\* clock reading at the end.
C27_ListState ==
    \A p \in TIMESTAMP_KEYS :
        /\ NonDecreasing(request_timestamps[p])
        /\ Len(request_timestamps[p]) <= config(p).requests_per_minute + 1

C27_ListStep ==
    pc = "rate_limit_delay" =>
        LET old == request_timestamps[platform]
            new == request_timestamps'[platform]
            dropped == Len(old) - (Len(new) - 1)
        IN /\ new # <<>>
           /\ new[Len(new)] = clock
           /\ dropped >= 0
           /\ SubSeq(new, 1, Len(new) - 1) = SubSeq(old, dropped + 1, Len(old))
           /\ \A k \in 1..Len(old) : (k <= dropped) <=> (clock - old[k] >= 60)

C27_TimestampListInvariant == []C27_ListState /\ [][C27_ListStep]_vars

C27_Witness ==
    /\ pc = "fetch"
    /\ platform = P_x
    /\ request_timestamps[P_x][1] > 0
    /\ Len(request_timestamps[P_x]) >= config(P_x).requests_per_minute - 2
    /\ request_timestamps[P_x][Len(request_timestamps[P_x])] = now

\* max_retries as the claim lists it
LISTED_MAX_RETRIES(p) == IF p = P_instagram THEN 3 ELSE 2

\* C28: a non-empty batch that process_links has started is returned in the
\* end, given that every collaborator call returns or raises; and a link of
\* a supported platform has at most max_retries + 1 collaborator calls, at
\* least one once it is completed, where max_retries is 3 for instagram and
\* 2 for x, youtube, tiktok, stockbit and linkedin.
C28_AttemptsBounded ==
    /\ \A p \in processors : config(p).max_retries = LISTED_MAX_RETRIES(p)
    /\ \A i \in 1..Len(call_log) :
          PlatformOf(i) \in processors =>
              /\ Len(call_log[i]) <= LISTED_MAX_RETRIES(PlatformOf(i)) + 1
              /\ Completed(i) => Len(call_log[i]) >= 1

C29_ResultPassedThrough ==
    CallReturned =>
        LET log == call_log[1] IN
        (log # <<>> /\ log[Len(log)].kind = "return") =>
            /\ DOMAIN all_results[1] = log[Len(log)].fields
            /\ \E o \in fetch_outcomes(platform, url) :
                  /\ o.kind = "return"
                  /\ log_entry(o) = log[Len(log)]
                  /\ all_results[1] = o.value
            /\ QuotaFailure(log[Len(log)]) => Len(log) = max_retries + 1

C29_Witness ==
    /\ CallReturned
    /\ Len(call_log[1]) = 2
    /\ call_log[1][2].kind = "return"
    /\ call_log[1][2].fields = {"error"}
    /\ all_results[1] = [error |-> MSG_NOT_FOUND]

\* C30: while a non-empty batch runs, the counts handed to print_progress_bar
\* are 0, 1, 2, ... one per record appended (records of supported and of
\* unknown links alike), the counter equals the number of records collected,
\* never exceeds the number of links and equals it when the batch is done;
\* the records stand in the order of the links
C30_ProgressReporting ==
    (pc # "idle" /\ links # <<>>) =>
        /\ Len(progress) = Len(all_results) + 1
        /\ \A i \in 1..Len(progress) : progress[i] = i - 1
        /\ processed_count = Len(all_results)
        /\ processed_count = progress[Len(progress)]
        /\ processed_count <= Len(links)
        /\ (pc = "done" => processed_count = Len(links))
        /\ \A i \in 1..Len(all_results) :
               "url" \in DOMAIN all_results[i] => all_results[i].url = links[i]

C30_Witness ==
    /\ BatchDone
    /\ Len(links) = 2
    /\ PlatformTable[links[1]] = P_unknown
    /\ PlatformTable[links[2]] # P_unknown
    /\ progress = <<0, 1, 2>>
    /\ truthy(get_error(all_results[1]))
    /\ "url" \in DOMAIN all_results[2]
    /\ all_results[2].url = links[2]

====
